---------------------------- MODULE Spec2Model ----------------------------
(***************************************************************************)
(* The pooling test-fixture catalog of torch_mlir_e2e_test/test_suite/     *)
(* pooling.py, and the run of its registered cases by the e2e runner:      *)
(* for each case the module is constructed by its factory, the case        *)
(* function generates the input tensors and calls module.forward.          *)
(*                                                                         *)
(* Tensors are kept as descriptions: shape, dtype and the rule that        *)
(* yields each element.  A generated tensor names its generator            *)
(* (tu.rand, torch.ones, torch.randint) and the seed; a result tensor      *)
(* names the operator and its operands.  Element values are read with      *)
(* ValueAt and the *At operators.                                          *)
(*                                                                         *)
(* Floating point values are kept in eighths: 1.0 is 8, 0.5 is 4,          *)
(* -4.5 is -36.  Every bound of tu.rand in the file is a multiple of 0.5.  *)
(* A quotient (a mean) is kept as numerator and denominator.               *)
(***************************************************************************)
EXTENDS Integers, Sequences, FiniteSets

VARIABLES pc, idx, module, args, results

vars == <<pc, idx, module, args, results>>

\* Number of seeds the random generator of the runner is drawn from.
NumSeeds == 4

-----------------------------------------------------------------------------
(* The catalog: one record per torch.nn.Module class (its pooling          *)
(* configuration and its annotate_args, without the None of self), and     *)
(* one per registered case (the module factory and the generators of the   *)
(* tensors it passes to forward).  A scalar parameter (dilation=2) is a    *)
(* sequence of one entry, a list parameter a sequence of two; <<>> is a    *)
(* parameter the class does not set (None).                                *)

\* Variant: AdaptiveAvgPool2d((2, 2)).
AdaptiveAvgPool2dModule_2x2 ==
    [name |-> "AdaptiveAvgPool2dModule", op |-> "adaptive_avg_pool2d",
     kernel_size |-> <<>>, stride |-> <<>>, padding |-> <<>>, dilation |-> <<>>,
     ceil_mode |-> FALSE, count_include_pad |-> FALSE,
     divisor_override |-> <<>>, output_size |-> <<2, 2>>,
     annotate_args |-> <<
        [shape |-> <<-1, -1, -1, -1>>, dtype |-> "float32"] >>]

AdaptiveAvgPool2dModule ==
    [name |-> "AdaptiveAvgPool2dModule", op |-> "adaptive_avg_pool2d",
     kernel_size |-> <<>>, stride |-> <<>>, padding |-> <<>>, dilation |-> <<>>,
     ceil_mode |-> FALSE, count_include_pad |-> FALSE,
     divisor_override |-> <<>>, output_size |-> <<1, 1>>,
     annotate_args |-> <<
        [shape |-> <<-1, -1, -1, -1>>, dtype |-> "float32"] >>]

AdaptiveAvgPool2dModule_basic ==
    [module_factory |-> AdaptiveAvgPool2dModule,
     inputs |-> <<
        [gen |-> "rand", sizes |-> <<10, 3, 8, 9>>, low |-> 0, high |-> 8, sub |-> 0] >>]

\* Variant: dilation=1.
MaxPool2dModule_dilation1 ==
    [name |-> "MaxPool2dModule", op |-> "max_pool2d",
     kernel_size |-> <<6, 8>>, stride |-> <<2, 2>>, padding |-> <<3, 4>>, dilation |-> <<1>>,
     ceil_mode |-> FALSE, count_include_pad |-> FALSE,
     divisor_override |-> <<>>, output_size |-> <<>>,
     annotate_args |-> <<
        [shape |-> <<-1, -1, -1, -1>>, dtype |-> "float32"] >>]

\* Variant: padding=[4, 4].
MaxPool2dModule_padding4 ==
    [name |-> "MaxPool2dModule", op |-> "max_pool2d",
     kernel_size |-> <<6, 8>>, stride |-> <<2, 2>>, padding |-> <<4, 4>>, dilation |-> <<2>>,
     ceil_mode |-> FALSE, count_include_pad |-> FALSE,
     divisor_override |-> <<>>, output_size |-> <<>>,
     annotate_args |-> <<
        [shape |-> <<-1, -1, -1, -1>>, dtype |-> "float32"] >>]

MaxPool2dModule ==
    [name |-> "MaxPool2dModule", op |-> "max_pool2d",
     kernel_size |-> <<6, 8>>, stride |-> <<2, 2>>, padding |-> <<3, 4>>, dilation |-> <<2>>,
     ceil_mode |-> FALSE, count_include_pad |-> FALSE,
     divisor_override |-> <<>>, output_size |-> <<>>,
     annotate_args |-> <<
        [shape |-> <<-1, -1, -1, -1>>, dtype |-> "float32"] >>]

MaxPool2dModule_basic ==
    [module_factory |-> MaxPool2dModule,
     inputs |-> <<
        [gen |-> "rand", sizes |-> <<1, 1, 20, 20>>, low |-> 0, high |-> 8, sub |-> 4] >>]

MaxPool2dStaticModule ==
    [name |-> "MaxPool2dStaticModule", op |-> "max_pool2d",
     kernel_size |-> <<3, 3>>, stride |-> <<2, 2>>, padding |-> <<1, 1>>, dilation |-> <<1, 1>>,
     ceil_mode |-> FALSE, count_include_pad |-> FALSE,
     divisor_override |-> <<>>, output_size |-> <<>>,
     annotate_args |-> <<
        [shape |-> <<1, 64, 112, 112>>, dtype |-> "float32"] >>]

MaxPool2dStaticModule_basic ==
    [module_factory |-> MaxPool2dStaticModule,
     inputs |-> <<
        [gen |-> "rand", sizes |-> <<1, 64, 112, 112>>, low |-> 0, high |-> 8, sub |-> 0] >>]

MaxPool2dWith3dInputModule ==
    [name |-> "MaxPool2dWith3dInputModule", op |-> "max_pool2d",
     kernel_size |-> <<6, 8>>, stride |-> <<2, 2>>, padding |-> <<3, 4>>, dilation |-> <<2>>,
     ceil_mode |-> FALSE, count_include_pad |-> FALSE,
     divisor_override |-> <<>>, output_size |-> <<>>,
     annotate_args |-> <<
        [shape |-> <<-1, -1, -1>>, dtype |-> "float32"] >>]

MaxPool2dWith3dInputModule_basic ==
    [module_factory |-> MaxPool2dWith3dInputModule,
     inputs |-> <<
        [gen |-> "rand", sizes |-> <<1, 20, 20>>, low |-> 0, high |-> 8, sub |-> 4] >>]

MaxPool2dWithIndicesModule ==
    [name |-> "MaxPool2dWithIndicesModule", op |-> "max_pool2d_with_indices",
     kernel_size |-> <<2, 2>>, stride |-> <<1, 1>>, padding |-> <<0, 0>>, dilation |-> <<1, 1>>,
     ceil_mode |-> FALSE, count_include_pad |-> FALSE,
     divisor_override |-> <<>>, output_size |-> <<>>,
     annotate_args |-> <<
        [shape |-> <<-1, -1, -1, -1>>, dtype |-> "float32"] >>]

MaxPool2dWithIndicesModule_basic ==
    [module_factory |-> MaxPool2dWithIndicesModule,
     inputs |-> <<
        [gen |-> "rand", sizes |-> <<1, 1, 8, 8>>, low |-> 4, high |-> 8, sub |-> 0] >>]

MaxPool2dWithIndicesFullSizeKernelModule ==
    [name |-> "MaxPool2dWithIndicesFullSizeKernelModule", op |-> "max_pool2d_with_indices",
     kernel_size |-> <<4, 4>>, stride |-> <<1>>, padding |-> <<0>>, dilation |-> <<1>>,
     ceil_mode |-> FALSE, count_include_pad |-> FALSE,
     divisor_override |-> <<>>, output_size |-> <<>>,
     annotate_args |-> <<
        [shape |-> <<-1, -1, -1, -1>>, dtype |-> "float32"] >>]

MaxPool2dWithIndicesFullSizeKernelModule_basic ==
    [module_factory |-> MaxPool2dWithIndicesFullSizeKernelModule,
     inputs |-> <<
        [gen |-> "rand", sizes |-> <<2, 3, 4, 4>>, low |-> 4, high |-> 8, sub |-> 0] >>]

MaxPool2dWithIndicesNonDefaultPaddingModule ==
    [name |-> "MaxPool2dWithIndicesNonDefaultPaddingModule", op |-> "max_pool2d_with_indices",
     kernel_size |-> <<4, 8>>, stride |-> <<1, 1>>, padding |-> <<2, 4>>, dilation |-> <<1>>,
     ceil_mode |-> FALSE, count_include_pad |-> FALSE,
     divisor_override |-> <<>>, output_size |-> <<>>,
     annotate_args |-> <<
        [shape |-> <<-1, -1, -1, -1>>, dtype |-> "float32"] >>]

MaxPool2dWithIndicesNonDefaultPaddingModule_basic ==
    [module_factory |-> MaxPool2dWithIndicesNonDefaultPaddingModule,
     inputs |-> <<
        [gen |-> "rand", sizes |-> <<2, 4, 16, 16>>, low |-> -12, high |-> 8, sub |-> 0] >>]

MaxPool2dWithIndicesNonDefaultStrideModule ==
    [name |-> "MaxPool2dWithIndicesNonDefaultStrideModule", op |-> "max_pool2d_with_indices",
     kernel_size |-> <<4, 4>>, stride |-> <<1, 2>>, padding |-> <<0>>, dilation |-> <<1>>,
     ceil_mode |-> FALSE, count_include_pad |-> FALSE,
     divisor_override |-> <<>>, output_size |-> <<>>,
     annotate_args |-> <<
        [shape |-> <<-1, -1, -1, -1>>, dtype |-> "float32"] >>]

MaxPool2dWithIndicesNonDefaultStrideModule_basic ==
    [module_factory |-> MaxPool2dWithIndicesNonDefaultStrideModule,
     inputs |-> <<
        [gen |-> "rand", sizes |-> <<1, 4, 16, 80>>, low |-> 4, high |-> 16, sub |-> 0] >>]

MaxPool2dWithIndicesNonDefaultDilationModule ==
    [name |-> "MaxPool2dWithIndicesNonDefaultDilationModule", op |-> "max_pool2d_with_indices",
     kernel_size |-> <<4, 4>>, stride |-> <<1, 1>>, padding |-> <<0>>, dilation |-> <<2, 2>>,
     ceil_mode |-> FALSE, count_include_pad |-> FALSE,
     divisor_override |-> <<>>, output_size |-> <<>>,
     annotate_args |-> <<
        [shape |-> <<-1, -1, -1, -1>>, dtype |-> "float32"] >>]

MaxPool2dWithIndicesNonDefaultDilationModule_basic ==
    [module_factory |-> MaxPool2dWithIndicesNonDefaultDilationModule,
     inputs |-> <<
        [gen |-> "rand", sizes |-> <<1, 4, 16, 80>>, low |-> 4, high |-> 16, sub |-> 0] >>]

MaxPool2dWithIndicesNonDefaultParamsModule ==
    [name |-> "MaxPool2dWithIndicesNonDefaultParamsModule", op |-> "max_pool2d_with_indices",
     kernel_size |-> <<8, 4>>, stride |-> <<2, 2>>, padding |-> <<1, 2>>, dilation |-> <<2, 2>>,
     ceil_mode |-> FALSE, count_include_pad |-> FALSE,
     divisor_override |-> <<>>, output_size |-> <<>>,
     annotate_args |-> <<
        [shape |-> <<-1, -1, -1, -1>>, dtype |-> "float32"] >>]

MaxPool2dWithIndicesNonDefaultParamsModule_basic ==
    [module_factory |-> MaxPool2dWithIndicesNonDefaultParamsModule,
     inputs |-> <<
        [gen |-> "rand", sizes |-> <<1, 4, 16, 80>>, low |-> -4, high |-> 32, sub |-> 0] >>]

MaxPool2dWithIndicesAllNegativeValuesModule ==
    [name |-> "MaxPool2dWithIndicesAllNegativeValuesModule", op |-> "max_pool2d_with_indices",
     kernel_size |-> <<4, 8>>, stride |-> <<1, 1>>, padding |-> <<2, 4>>, dilation |-> <<1>>,
     ceil_mode |-> FALSE, count_include_pad |-> FALSE,
     divisor_override |-> <<>>, output_size |-> <<>>,
     annotate_args |-> <<
        [shape |-> <<-1, -1, -1, -1>>, dtype |-> "float32"] >>]

MaxPool2dWithIndicesAllNegativeValuesModule_basic ==
    [module_factory |-> MaxPool2dWithIndicesAllNegativeValuesModule,
     inputs |-> <<
        [gen |-> "rand", sizes |-> <<2, 4, 16, 16>>, low |-> -36, high |-> -8, sub |-> 0] >>]

MaxPool2dWithIndicesStaticModule ==
    [name |-> "MaxPool2dWithIndicesStaticModule", op |-> "max_pool2d_with_indices",
     kernel_size |-> <<4, 8>>, stride |-> <<1, 1>>, padding |-> <<2, 4>>, dilation |-> <<1>>,
     ceil_mode |-> FALSE, count_include_pad |-> FALSE,
     divisor_override |-> <<>>, output_size |-> <<>>,
     annotate_args |-> <<
        [shape |-> <<2, 4, 16, 16>>, dtype |-> "float32"] >>]

MaxPool2dWithIndicesStaticModule_basic ==
    [module_factory |-> MaxPool2dWithIndicesStaticModule,
     inputs |-> <<
        [gen |-> "rand", sizes |-> <<2, 4, 16, 16>>, low |-> -36, high |-> -8, sub |-> 0] >>]

MaxPool2dWithIndicesAllOnesModule ==
    [name |-> "MaxPool2dWithIndicesAllOnesModule", op |-> "max_pool2d_with_indices",
     kernel_size |-> <<2, 2>>, stride |-> <<1, 1>>, padding |-> <<0, 0>>, dilation |-> <<1, 1>>,
     ceil_mode |-> FALSE, count_include_pad |-> FALSE,
     divisor_override |-> <<>>, output_size |-> <<>>,
     annotate_args |-> <<
        [shape |-> <<-1, -1, -1, -1>>, dtype |-> "float32"] >>]

\* Variant: the case passes tu.rand(1, 1, 8, 8, low=0.5, high=1.0).
MaxPool2dWithIndicesAllOnesModule_basic_rand ==
    [module_factory |-> MaxPool2dWithIndicesAllOnesModule,
     inputs |-> <<
        [gen |-> "rand", sizes |-> <<1, 1, 8, 8>>, low |-> 4, high |-> 8, sub |-> 0] >>]

MaxPool2dWithIndicesAllOnesModule_basic ==
    [module_factory |-> MaxPool2dWithIndicesAllOnesModule,
     inputs |-> <<
        [gen |-> "ones", sizes |-> <<1, 1, 8, 8>>, low |-> 8, high |-> 8, sub |-> 0] >>]

MaxPool2dWithIndicesWith3dInputModule ==
    [name |-> "MaxPool2dWithIndicesWith3dInputModule", op |-> "max_pool2d_with_indices",
     kernel_size |-> <<2, 2>>, stride |-> <<1, 1>>, padding |-> <<0, 0>>, dilation |-> <<1, 1>>,
     ceil_mode |-> FALSE, count_include_pad |-> FALSE,
     divisor_override |-> <<>>, output_size |-> <<>>,
     annotate_args |-> <<
        [shape |-> <<-1, -1, -1>>, dtype |-> "float32"] >>]

MaxPool2dWithIndicesWith3dInputModule_basic ==
    [module_factory |-> MaxPool2dWithIndicesWith3dInputModule,
     inputs |-> <<
        [gen |-> "rand", sizes |-> <<1, 8, 8>>, low |-> 4, high |-> 8, sub |-> 0] >>]

MaxPool2dWithIndicesBackwardStatic4DModule ==
    [name |-> "MaxPool2dWithIndicesBackwardStatic4DModule", op |-> "max_pool2d_with_indices_backward",
     kernel_size |-> <<2, 2>>, stride |-> <<1, 1>>, padding |-> <<1, 1>>, dilation |-> <<1, 1>>,
     ceil_mode |-> FALSE, count_include_pad |-> FALSE,
     divisor_override |-> <<>>, output_size |-> <<>>,
     annotate_args |-> <<
        [shape |-> <<2, 4, 7, 6>>, dtype |-> "float32"],
        [shape |-> <<2, 4, 6, 5>>, dtype |-> "float32"],
        [shape |-> <<2, 4, 7, 6>>, dtype |-> "int64"] >>]

\* Variant: indices drawn below 42, the size of the output plane.
MaxPool2dWithIndicesBackwardStatic4DModule_basic_randint42 ==
    [module_factory |-> MaxPool2dWithIndicesBackwardStatic4DModule,
     inputs |-> <<
        [gen |-> "rand", sizes |-> <<2, 4, 7, 6>>, low |-> 0, high |-> 8, sub |-> 0],
        [gen |-> "rand", sizes |-> <<2, 4, 6, 5>>, low |-> 0, high |-> 8, sub |-> 0],
        [gen |-> "randint", sizes |-> <<2, 4, 7, 6>>, low |-> 0, high |-> 42, sub |-> 0] >>]

MaxPool2dWithIndicesBackwardStatic4DModule_basic ==
    [module_factory |-> MaxPool2dWithIndicesBackwardStatic4DModule,
     inputs |-> <<
        [gen |-> "rand", sizes |-> <<2, 4, 7, 6>>, low |-> 0, high |-> 8, sub |-> 0],
        [gen |-> "rand", sizes |-> <<2, 4, 6, 5>>, low |-> 0, high |-> 8, sub |-> 0],
        [gen |-> "randint", sizes |-> <<2, 4, 7, 6>>, low |-> 0, high |-> 16, sub |-> 0] >>]

MaxPool2dWithIndicesBackwardStatic3DModule ==
    [name |-> "MaxPool2dWithIndicesBackwardStatic3DModule", op |-> "max_pool2d_with_indices_backward",
     kernel_size |-> <<2, 2>>, stride |-> <<1, 1>>, padding |-> <<1, 1>>, dilation |-> <<1, 1>>,
     ceil_mode |-> FALSE, count_include_pad |-> FALSE,
     divisor_override |-> <<>>, output_size |-> <<>>,
     annotate_args |-> <<
        [shape |-> <<4, 7, 6>>, dtype |-> "float32"],
        [shape |-> <<4, 6, 5>>, dtype |-> "float32"],
        [shape |-> <<4, 7, 6>>, dtype |-> "int64"] >>]

MaxPool2dWithIndicesBackwardStatic3DModule_basic ==
    [module_factory |-> MaxPool2dWithIndicesBackwardStatic3DModule,
     inputs |-> <<
        [gen |-> "rand", sizes |-> <<4, 7, 6>>, low |-> 0, high |-> 8, sub |-> 0],
        [gen |-> "rand", sizes |-> <<4, 6, 5>>, low |-> 0, high |-> 8, sub |-> 0],
        [gen |-> "randint", sizes |-> <<4, 7, 6>>, low |-> 0, high |-> 16, sub |-> 0] >>]

MaxPool2dWithIndicesBackwardDynamic4DModule ==
    [name |-> "MaxPool2dWithIndicesBackwardDynamic4DModule", op |-> "max_pool2d_with_indices_backward",
     kernel_size |-> <<2, 2>>, stride |-> <<1, 1>>, padding |-> <<1, 1>>, dilation |-> <<1, 1>>,
     ceil_mode |-> FALSE, count_include_pad |-> FALSE,
     divisor_override |-> <<>>, output_size |-> <<>>,
     annotate_args |-> <<
        [shape |-> <<-1, -1, -1, -1>>, dtype |-> "float32"],
        [shape |-> <<-1, -1, -1, -1>>, dtype |-> "float32"],
        [shape |-> <<-1, -1, -1, -1>>, dtype |-> "int64"] >>]

\* Variant: the upstream gradient is generated with the shape of the input.
MaxPool2dWithIndicesBackwardDynamic4DModule_basic_output65 ==
    [module_factory |-> MaxPool2dWithIndicesBackwardDynamic4DModule,
     inputs |-> <<
        [gen |-> "rand", sizes |-> <<2, 4, 6, 5>>, low |-> 0, high |-> 8, sub |-> 0],
        [gen |-> "rand", sizes |-> <<2, 4, 6, 5>>, low |-> 0, high |-> 8, sub |-> 0],
        [gen |-> "randint", sizes |-> <<2, 4, 7, 6>>, low |-> 0, high |-> 16, sub |-> 0] >>]

MaxPool2dWithIndicesBackwardDynamic4DModule_basic ==
    [module_factory |-> MaxPool2dWithIndicesBackwardDynamic4DModule,
     inputs |-> <<
        [gen |-> "rand", sizes |-> <<2, 4, 7, 6>>, low |-> 0, high |-> 8, sub |-> 0],
        [gen |-> "rand", sizes |-> <<2, 4, 6, 5>>, low |-> 0, high |-> 8, sub |-> 0],
        [gen |-> "randint", sizes |-> <<2, 4, 7, 6>>, low |-> 0, high |-> 16, sub |-> 0] >>]

MaxPool2dWithIndicesBackwardDynamic3DModule ==
    [name |-> "MaxPool2dWithIndicesBackwardDynamic3DModule", op |-> "max_pool2d_with_indices_backward",
     kernel_size |-> <<2, 2>>, stride |-> <<1, 1>>, padding |-> <<1, 1>>, dilation |-> <<1, 1>>,
     ceil_mode |-> FALSE, count_include_pad |-> FALSE,
     divisor_override |-> <<>>, output_size |-> <<>>,
     annotate_args |-> <<
        [shape |-> <<-1, -1, -1>>, dtype |-> "float32"],
        [shape |-> <<-1, -1, -1>>, dtype |-> "float32"],
        [shape |-> <<-1, -1, -1>>, dtype |-> "int64"] >>]

\* Variant: the forward input is generated with the shape of the gradient.
MaxPool2dWithIndicesBackwardDynamic3DModule_basic_input76 ==
    [module_factory |-> MaxPool2dWithIndicesBackwardDynamic3DModule,
     inputs |-> <<
        [gen |-> "rand", sizes |-> <<2, 7, 6>>, low |-> 0, high |-> 8, sub |-> 0],
        [gen |-> "rand", sizes |-> <<2, 7, 6>>, low |-> 0, high |-> 8, sub |-> 0],
        [gen |-> "randint", sizes |-> <<2, 7, 6>>, low |-> 0, high |-> 16, sub |-> 0] >>]

MaxPool2dWithIndicesBackwardDynamic3DModule_basic ==
    [module_factory |-> MaxPool2dWithIndicesBackwardDynamic3DModule,
     inputs |-> <<
        [gen |-> "rand", sizes |-> <<2, 7, 6>>, low |-> 0, high |-> 8, sub |-> 0],
        [gen |-> "rand", sizes |-> <<2, 6, 5>>, low |-> 0, high |-> 8, sub |-> 0],
        [gen |-> "randint", sizes |-> <<2, 7, 6>>, low |-> 0, high |-> 16, sub |-> 0] >>]

AvgPool2dFloatModule ==
    [name |-> "AvgPool2dFloatModule", op |-> "avg_pool2d",
     kernel_size |-> <<6, 8>>, stride |-> <<2, 2>>, padding |-> <<3, 4>>, dilation |-> <<>>,
     ceil_mode |-> FALSE, count_include_pad |-> TRUE,
     divisor_override |-> <<>>, output_size |-> <<>>,
     annotate_args |-> <<
        [shape |-> <<-1, -1, -1, -1>>, dtype |-> "float32"] >>]

AvgPool2dFloatModule_basic ==
    [module_factory |-> AvgPool2dFloatModule,
     inputs |-> <<
        [gen |-> "rand", sizes |-> <<2, 4, 20, 20>>, low |-> 0, high |-> 8, sub |-> 4] >>]

AvgPool2dIntModule ==
    [name |-> "AvgPool2dIntModule", op |-> "avg_pool2d",
     kernel_size |-> <<6, 8>>, stride |-> <<2, 2>>, padding |-> <<3, 4>>, dilation |-> <<>>,
     ceil_mode |-> FALSE, count_include_pad |-> TRUE,
     divisor_override |-> <<>>, output_size |-> <<>>,
     annotate_args |-> <<
        [shape |-> <<-1, -1, -1, -1>>, dtype |-> "int64"] >>]

\* Variant: the case passes tu.rand(2, 4, 20, 20) - 0.5, as the float case does.
AvgPool2dIntModule_basic_rand ==
    [module_factory |-> AvgPool2dIntModule,
     inputs |-> <<
        [gen |-> "rand", sizes |-> <<2, 4, 20, 20>>, low |-> 0, high |-> 8, sub |-> 4] >>]

AvgPool2dIntModule_basic ==
    [module_factory |-> AvgPool2dIntModule,
     inputs |-> <<
        [gen |-> "randint", sizes |-> <<2, 4, 20, 20>>, low |-> 0, high |-> 100, sub |-> 0] >>]

AvgPool2dStaticModule ==
    [name |-> "AvgPool2dStaticModule", op |-> "avg_pool2d",
     kernel_size |-> <<6, 8>>, stride |-> <<2, 2>>, padding |-> <<3, 4>>, dilation |-> <<>>,
     ceil_mode |-> FALSE, count_include_pad |-> TRUE,
     divisor_override |-> <<>>, output_size |-> <<>>,
     annotate_args |-> <<
        [shape |-> <<2, 2, 10, 20>>, dtype |-> "float32"] >>]

AvgPool2dStaticModule_basic ==
    [module_factory |-> AvgPool2dStaticModule,
     inputs |-> <<
        [gen |-> "rand", sizes |-> <<2, 2, 10, 20>>, low |-> 0, high |-> 8, sub |-> 4] >>]

\* Variant: divisor_override=None.
AvgPool2dDivisorOverrideModule_none ==
    [name |-> "AvgPool2dDivisorOverrideModule", op |-> "avg_pool2d",
     kernel_size |-> <<4, 8>>, stride |-> <<2, 3>>, padding |-> <<2, 4>>, dilation |-> <<>>,
     ceil_mode |-> FALSE, count_include_pad |-> TRUE,
     divisor_override |-> <<>>, output_size |-> <<>>,
     annotate_args |-> <<
        [shape |-> <<4, 4, 20, 20>>, dtype |-> "float32"] >>]

AvgPool2dDivisorOverrideModule ==
    [name |-> "AvgPool2dDivisorOverrideModule", op |-> "avg_pool2d",
     kernel_size |-> <<4, 8>>, stride |-> <<2, 3>>, padding |-> <<2, 4>>, dilation |-> <<>>,
     ceil_mode |-> FALSE, count_include_pad |-> TRUE,
     divisor_override |-> <<22>>, output_size |-> <<>>,
     annotate_args |-> <<
        [shape |-> <<4, 4, 20, 20>>, dtype |-> "float32"] >>]

AvgPool2dDivisorOverrideModule_basic ==
    [module_factory |-> AvgPool2dDivisorOverrideModule,
     inputs |-> <<
        [gen |-> "rand", sizes |-> <<4, 4, 20, 20>>, low |-> 0, high |-> 8, sub |-> 4] >>]

Registry ==
    << AdaptiveAvgPool2dModule_basic,
       MaxPool2dModule_basic,
       MaxPool2dStaticModule_basic,
       MaxPool2dWith3dInputModule_basic,
       MaxPool2dWithIndicesModule_basic,
       MaxPool2dWithIndicesFullSizeKernelModule_basic,
       MaxPool2dWithIndicesNonDefaultPaddingModule_basic,
       MaxPool2dWithIndicesNonDefaultStrideModule_basic,
       MaxPool2dWithIndicesNonDefaultDilationModule_basic,
       MaxPool2dWithIndicesNonDefaultParamsModule_basic,
       MaxPool2dWithIndicesAllNegativeValuesModule_basic,
       MaxPool2dWithIndicesStaticModule_basic,
       MaxPool2dWithIndicesAllOnesModule_basic,
       MaxPool2dWithIndicesWith3dInputModule_basic,
       MaxPool2dWithIndicesBackwardStatic4DModule_basic,
       MaxPool2dWithIndicesBackwardStatic3DModule_basic,
       MaxPool2dWithIndicesBackwardDynamic4DModule_basic,
       MaxPool2dWithIndicesBackwardDynamic3DModule_basic,
       AvgPool2dFloatModule_basic,
       AvgPool2dIntModule_basic,
       AvgPool2dStaticModule_basic,
       AvgPool2dDivisorOverrideModule_basic >>

-----------------------------------------------------------------------------
(* Shapes *)

RECURSIVE Prod(_)
Prod(s) == IF Len(s) = 0 THEN 1 ELSE Head(s) * Prod(Tail(s))

Numel(shape) == Prod(shape)

\* The two spatial sizes (last two dimensions) and what precedes them.
Height(shape) == shape[Len(shape) - 1]
Width(shape) == shape[Len(shape)]
Leading(shape) == SubSeq(shape, 1, Len(shape) - 2)
Planes(shape) == Prod(Leading(shape))

-----------------------------------------------------------------------------
(* Input generation: tu.rand(sizes, low, high) [- sub], torch.ones(sizes)  *)
(* and torch.randint(high, sizes).                                         *)

\* The k-th draw of the generator for argument `slot` under `seed`.
Rand(seed, slot, k) ==
    ((k + 1) * (2 * seed + 3) * 7919 + (k \div 7) * 613 + slot * 104729 + seed * 31) % 1009

DTypeOf(g) == IF g.gen = "randint" THEN "int64" ELSE "float32"

MakeTensor(g, seed, slot) ==
    [shape |-> g.sizes, dtype |-> DTypeOf(g), gen |-> g.gen,
     low |-> g.low, high |-> g.high, sub |-> g.sub,
     seed |-> seed, slot |-> slot]

Generate(inputs, seed) ==
    [i \in 1..Len(inputs) |-> MakeTensor(inputs[i], seed, i)]

\* Element k (flat, row-major, from 0) of a generated tensor.
ValueAt(t, k) ==
    IF t.gen = "ones" THEN 8
    ELSE IF t.gen = "randint" THEN Rand(t.seed, t.slot, k) % t.high
    ELSE t.low + (Rand(t.seed, t.slot, k) % (t.high - t.low)) - t.sub

\* Element (h, w) of plane p of a tensor.
Elem(t, p, h, w) ==
    ValueAt(t, p * Height(t.shape) * Width(t.shape) + h * Width(t.shape) + w)

-----------------------------------------------------------------------------
(* The pooling operators the modules call. *)

\* A scalar parameter stands for both spatial dimensions; an absent
\* dilation is 1.
Pair(p) == IF Len(p) = 0 THEN <<1, 1>>
           ELSE IF Len(p) = 1 THEN <<p[1], p[1]>> ELSE p

DivFloor(a, b) == a \div b
DivCeil(a, b) == -((-a) \div b)

\* floor_or_ceil((input_size + 2*padding - dilation*(kernel_size-1) - 1)
\*               / stride) + 1
pooling_output_size(input_size, kernel_size, stride, padding, dilation, ceil_mode) ==
    LET n == input_size + 2 * padding - dilation * (kernel_size - 1) - 1
    IN  (IF ceil_mode THEN DivCeil(n, stride) ELSE DivFloor(n, stride)) + 1

PoolOutH(m, shape) ==
    pooling_output_size(Height(shape), m.kernel_size[1], Pair(m.stride)[1],
                        Pair(m.padding)[1], Pair(m.dilation)[1], m.ceil_mode)
PoolOutW(m, shape) ==
    pooling_output_size(Width(shape), m.kernel_size[2], Pair(m.stride)[2],
                        Pair(m.padding)[2], Pair(m.dilation)[2], m.ceil_mode)

PoolShape(m, shape) == Leading(shape) \o <<PoolOutH(m, shape), PoolOutW(m, shape)>>

\* The input coordinates under the window of output position o along one
\* dimension, in scan order, padding left out.
WindowLine(o, size, k, s, p, d) ==
    SelectSeq([i \in 1..k |-> o * s - p + (i - 1) * d],
              LAMBDA c : c >= 0 /\ c < size)

\* The in-bounds rows under the window of output row oh, and the in-bounds
\* columns under the window of output column ow.
WindowRows(m, shape, oh) ==
    WindowLine(oh, Height(shape), m.kernel_size[1], Pair(m.stride)[1],
               Pair(m.padding)[1], Pair(m.dilation)[1])
WindowCols(m, shape, ow) ==
    WindowLine(ow, Width(shape), m.kernel_size[2], Pair(m.stride)[2],
               Pair(m.padding)[2], Pair(m.dilation)[2])

\* The in-bounds input positions <<h, w>> of the window of output (oh, ow),
\* in row-major scan order.
Window(m, shape, oh, ow) ==
    LET hs == WindowRows(m, shape, oh)
        ws == WindowCols(m, shape, ow)
    IN  [i \in 1..(Len(hs) * Len(ws)) |->
            <<hs[((i - 1) \div Len(ws)) + 1], ws[((i - 1) % Len(ws)) + 1]>>]

RECURSIVE SumTo(_, _)
SumTo(s, n) == IF n = 0 THEN 0 ELSE s[n] + SumTo(s, n - 1)
SumSeq(s) == SumTo(s, Len(s))

\* Scan of the first n window positions: the maximum so far and the position
\* that holds it.  A later element replaces the maximum only when greater.
RECURSIVE MaxScan(_, _, _, _)
MaxScan(x, p, win, n) ==
    IF n = 1 THEN [value |-> Elem(x, p, win[1][1], win[1][2]), at |-> win[1]]
    ELSE LET best == MaxScan(x, p, win, n - 1)
             v == Elem(x, p, win[n][1], win[n][2])
         IN  IF v > best.value THEN [value |-> v, at |-> win[n]] ELSE best

\* max_pool2d / max_pool2d_with_indices at output (oh, ow) of plane p:
\* the maximum and the flat row-major offset, in the input plane, of the
\* element that holds it.
MaxPoolAt(r, p, oh, ow) ==
    LET win == Window(r.module, r.x.shape, oh, ow)
        best == MaxScan(r.x, p, win, Len(win))
    IN  [value |-> best.value,
         index |-> best.at[1] * Width(r.x.shape) + best.at[2]]

\* Number of window positions inside the padded input along one dimension.
PaddedExtent(o, size, k, s, p) ==
    LET start == o * s - p
        end == IF start + k < size + p THEN start + k ELSE size + p
    IN  end - start

\* avg_pool2d at output (oh, ow) of plane p: the sum of the in-bounds
\* elements of the window over the divisor.
AvgPoolAt(r, p, oh, ow) ==
    LET m == r.module
        win == Window(m, r.x.shape, oh, ow)
        total == SumSeq([i \in 1..Len(win) |-> Elem(r.x, p, win[i][1], win[i][2])])
        pool_size ==
            PaddedExtent(oh, Height(r.x.shape), m.kernel_size[1],
                         Pair(m.stride)[1], Pair(m.padding)[1])
          * PaddedExtent(ow, Width(r.x.shape), m.kernel_size[2],
                         Pair(m.stride)[2], Pair(m.padding)[2])
    IN  [num |-> total,
         den |-> IF Len(m.divisor_override) > 0 THEN m.divisor_override[1]
                 ELSE IF m.count_include_pad THEN pool_size
                 ELSE Len(win)]

\* adaptive_avg_pool2d: output position o of `out` covers the input range
\* floor(o*size/out) .. ceil((o+1)*size/out) - 1.
AdaptiveStart(o, size, out) == DivFloor(o * size, out)
AdaptiveEnd(o, size, out) == DivCeil((o + 1) * size, out)

AdaptiveAvgPoolAt(r, p, oh, ow) ==
    LET H == Height(r.x.shape)
        W == Width(r.x.shape)
        h0 == AdaptiveStart(oh, H, r.module.output_size[1])
        h1 == AdaptiveEnd(oh, H, r.module.output_size[1])
        w0 == AdaptiveStart(ow, W, r.module.output_size[2])
        w1 == AdaptiveEnd(ow, W, r.module.output_size[2])
        n == (h1 - h0) * (w1 - w0)
    IN  [num |-> SumSeq([i \in 1..n |->
                    Elem(r.x, p, h0 + ((i - 1) \div (w1 - w0)),
                               w0 + ((i - 1) % (w1 - w0)))]),
         den |-> n]

\* max_pool2d_with_indices_backward on plane p: starting from zero, each
\* output position o in turn adds grad_output[o] to grad_input[indices[o]].
RECURSIVE ScatterAdd(_, _, _)
ScatterAdd(r, p, n) ==
    IF n = 0 THEN [q \in 0..(Height(r.shape) * Width(r.shape) - 1) |-> 0]
    ELSE LET osize == Height(r.grad_output.shape) * Width(r.grad_output.shape)
             o == p * osize + (n - 1)
         IN  [ScatterAdd(r, p, n - 1) EXCEPT
                ![ValueAt(r.indices, o)] = @ + ValueAt(r.grad_output, o)]

GradInputPlane(r, p) ==
    ScatterAdd(r, p, Height(r.grad_output.shape) * Width(r.grad_output.shape))

-----------------------------------------------------------------------------
(* The operators as the forward methods call them: each yields the         *)
(* description of its result tensor(s).                                    *)

adaptive_avg_pool2d(m, x) ==
    [op |-> "adaptive_avg_pool2d", module |-> m, x |-> x, dtype |-> x.dtype,
     shape |-> Leading(x.shape) \o m.output_size]

max_pool2d(m, x) ==
    [op |-> "max_pool2d", module |-> m, x |-> x, dtype |-> x.dtype,
     shape |-> PoolShape(m, x.shape)]

max_pool2d_with_indices(m, x) ==
    << [op |-> "max_pool2d_with_indices.values", module |-> m, x |-> x,
        dtype |-> x.dtype, shape |-> PoolShape(m, x.shape)],
       [op |-> "max_pool2d_with_indices.indices", module |-> m, x |-> x,
        dtype |-> "int64", shape |-> PoolShape(m, x.shape)] >>

avg_pool2d(m, x) ==
    [op |-> "avg_pool2d", module |-> m, x |-> x, dtype |-> x.dtype,
     shape |-> PoolShape(m, x.shape)]

max_pool2d_with_indices_backward(m, grad_output, self, indices) ==
    [op |-> "max_pool2d_with_indices_backward", module |-> m,
     grad_output |-> grad_output, indices |-> indices,
     dtype |-> grad_output.dtype, shape |-> self.shape]

-----------------------------------------------------------------------------
(* The forward methods of the module classes. *)

\* forward(self, x) of the pooling modules with one input.
PoolForward(m, x) ==
    IF m.op = "adaptive_avg_pool2d" THEN <<adaptive_avg_pool2d(m, x)>>
    ELSE IF m.op = "max_pool2d" THEN <<max_pool2d(m, x)>>
    ELSE IF m.op = "max_pool2d_with_indices" THEN max_pool2d_with_indices(m, x)
    ELSE <<avg_pool2d(m, x)>>

\* Variant: forward passes input and output in the other order.
BackwardForward_swapped(m, output, input, indices) ==
    <<max_pool2d_with_indices_backward(m, input, output, indices)>>

\* forward(self, output, input, indices) of the four backward modules.
BackwardForward(m, output, input, indices) ==
    <<max_pool2d_with_indices_backward(m, output, input, indices)>>

Forward(m, a) ==
    IF m.op = "max_pool2d_with_indices_backward"
    THEN BackwardForward(m, a[1], a[2], a[3])
    ELSE PoolForward(m, a[1])

-----------------------------------------------------------------------------
(* The run of the registry. *)

NoModule == [name |-> "none"]

Init ==
    /\ pc = "registered"
    /\ idx = 1
    /\ module = NoModule
    /\ args = <<>>
    /\ results = <<>>

\* module_factory(): the runner constructs the module of the current case.
Construct ==
    /\ pc = "registered"
    /\ module' = Registry[idx].module_factory
    /\ pc' = "constructed"
    /\ UNCHANGED <<idx, args, results>>

\* <Name>_basic(module, tu): the inputs are generated and passed to forward.
RunCase(seed) ==
    /\ pc = "constructed"
    /\ args' = Generate(Registry[idx].inputs, seed)
    /\ results' = Forward(module, args')
    /\ pc' = "done"
    /\ UNCHANGED <<idx, module>>

\* The runner goes on to the next registered case.
NextCase ==
    /\ pc = "done"
    /\ idx < Len(Registry)
    /\ idx' = idx + 1
    /\ pc' = "registered"
    /\ module' = NoModule
    /\ args' = <<>>
    /\ results' = <<>>

Next ==
    \/ Construct
    \/ \E seed \in 0..(NumSeeds - 1) : RunCase(seed)
    \/ NextCase

Spec == Init /\ [][Next]_vars


-----------------------------------------------------------------------------
(* Properties of the catalog and of the run of its cases. *)

Done == pc = "done"
IsBackward == module.op = "max_pool2d_with_indices_backward"
IsForwardPool == module.op \in {"max_pool2d", "max_pool2d_with_indices", "avg_pool2d"}

\* A tensor satisfies an annotate_args entry: same rank, fixed dimensions
\* equal, dynamic (-1) dimensions bound to a size >= 1, same dtype.
Satisfies(t, ann) ==
    /\ Len(t.shape) = Len(ann.shape)
    /\ \A d \in 1..Len(ann.shape) :
          IF ann.shape[d] = -1 THEN t.shape[d] >= 1
          ELSE t.shape[d] = ann.shape[d]
    /\ t.dtype = ann.dtype

\* C1: for every registered case, the tensors passed to module.forward
\* are as many as the non-self annotate_args entries of the module, and
\* each satisfies its entry: rank equal to the length of the declared shape,
\* every declared dimension other than -1 equal to the tensor's, every -1
\* dimension bound to a size >= 1, and dtype (float32 from tu.rand and
\* torch.ones, int64 from torch.randint) equal to the declared one.
C1_InputContract ==
    Done =>
        /\ Len(args) = Len(module.annotate_args)
        /\ \A i \in 1..Len(args) :
              /\ Satisfies(args[i], module.annotate_args[i])
              /\ args[i].dtype = (IF args[i].gen = "randint" THEN "int64" ELSE "float32")

\* An int64 tensor from torch.randint has been passed to the int64 input of
\* AvgPool2dIntModule.
C1_Witness ==
    /\ Done
    /\ module.name = "AvgPool2dIntModule"
    /\ args[1].gen = "randint"
    /\ module.annotate_args[1].dtype = "int64"
    /\ args[1].shape = <<2, 4, 20, 20>>

\* The examples the formula is stated with: module name -> spatial sizes.
C2_Examples ==
    /\ module.name = "MaxPool2dModule" =>
          args[1].shape = <<1, 1, 20, 20>> /\ results[1].shape = <<1, 1, 8, 7>>
    /\ module.name = "MaxPool2dWithIndicesFullSizeKernelModule" =>
          args[1].shape = <<2, 3, 4, 4>> /\ results[1].shape = <<2, 3, 1, 1>>
    /\ module.name = "MaxPool2dWithIndicesNonDefaultParamsModule" =>
          args[1].shape = <<1, 4, 16, 80>> /\ results[1].shape = <<1, 4, 2, 39>>
    /\ module.name = "AvgPool2dDivisorOverrideModule" =>
          args[1].shape = <<4, 4, 20, 20>> /\ results[1].shape = <<4, 4, 11, 7>>

\* C2: in every forward max-pool, max-pool-with-indices and average-pool
\* case, each result has the batch/channel dimensions of the input, and in
\* each of the two spatial dimensions the size
\* floor((input_size + 2*padding - dilation*(kernel_size-1) - 1) / stride) + 1,
\* which is >= 1; the named examples give 8x7, 1x1, 2x39 and 11x7.
C2_OutputSize ==
    (Done /\ IsForwardPool) =>
        /\ module.ceil_mode = FALSE
        /\ \A r \in 1..Len(results) :
              /\ Len(results[r].shape) = Len(args[1].shape)
              /\ Leading(results[r].shape) = Leading(args[1].shape)
              /\ \A d \in 1..2 :
                    LET in == args[1].shape[Len(args[1].shape) - 2 + d]
                        out == results[r].shape[Len(args[1].shape) - 2 + d]
                        k == module.kernel_size[d]
                        s == Pair(module.stride)[d]
                        p == Pair(module.padding)[d]
                        dl == Pair(module.dilation)[d]
                    IN  /\ out = ((in + 2 * p - dl * (k - 1) - 1) \div s) + 1
                        /\ out >= 1
        /\ C2_Examples

\* MaxPool2dModule (scalar dilation 2, paddings 3 and 4) has produced its
\* 8x7 result from the 20x20 input.
C2_Witness ==
    /\ Done
    /\ module.name = "MaxPool2dModule"
    /\ results[1].shape = <<1, 1, 8, 7>>

\* C3: MaxPool2dWithIndicesAllOnesModule on the all-ones 1x1x8x8 input
\* (kernel 2x2, stride 1, padding 0, dilation 1) yields a 1x1x7x7 value
\* tensor of ones (8 eighths) and a 1x1x7x7 index tensor whose entry at
\* (i, j) is 8*i + j, the offset of the top-left element of the window.
C3_AllOnesIndices ==
    (Done /\ module.name = "MaxPool2dWithIndicesAllOnesModule") =>
        /\ module.kernel_size = <<2, 2>> /\ Pair(module.stride) = <<1, 1>>
        /\ Pair(module.padding) = <<0, 0>> /\ Pair(module.dilation) = <<1, 1>>
        /\ args[1].shape = <<1, 1, 8, 8>>
        /\ \A k \in 0..63 : ValueAt(args[1], k) = 8
        /\ Len(results) = 2
        /\ results[1].shape = <<1, 1, 7, 7>>
        /\ results[2].shape = <<1, 1, 7, 7>>
        /\ \A i \in 0..6 : \A j \in 0..6 :
              /\ MaxPoolAt(results[1], 0, i, j).value = 8
              /\ MaxPoolAt(results[2], 0, i, j).index = 8 * i + j

\* The all-ones case has run, and the last window (6, 6), whose four
\* elements tie, has recorded offset 54.
C3_Witness ==
    /\ Done
    /\ module.name = "MaxPool2dWithIndicesAllOnesModule"
    /\ args[1].gen = "ones"
    /\ Len(Window(module, args[1].shape, 6, 6)) = 4
    /\ MaxPoolAt(results[2], 0, 6, 6).index = 54

\* C4: in each of the four backward cases the tensor forward returns has
\* the shape of its second argument, the forward input ((2,4,6,5), (4,6,5),
\* (2,4,6,5), (2,6,5)), and not that of the upstream gradient or the indices.
C4_GradShape ==
    (Done /\ IsBackward) =>
        /\ Len(results) = 1
        /\ results[1].shape = args[2].shape
        /\ results[1].shape # args[1].shape
        /\ results[1].shape # args[3].shape
        /\ results[1].shape =
              (IF module.name = "MaxPool2dWithIndicesBackwardStatic4DModule" THEN <<2, 4, 6, 5>>
               ELSE IF module.name = "MaxPool2dWithIndicesBackwardStatic3DModule" THEN <<4, 6, 5>>
               ELSE IF module.name = "MaxPool2dWithIndicesBackwardDynamic4DModule" THEN <<2, 4, 6, 5>>
               ELSE <<2, 6, 5>>)

\* The 3D dynamic backward case has returned a (2,6,5) gradient while the
\* upstream gradient is (2,7,6).
C4_Witness ==
    /\ Done
    /\ module.name = "MaxPool2dWithIndicesBackwardDynamic3DModule"
    /\ args[1].shape = <<2, 7, 6>>
    /\ results[1].shape = <<2, 6, 5>>

\* The sizes of one spatial plane of the forward input and of the upstream
\* gradient of a backward case.
InSize == Height(args[2].shape) * Width(args[2].shape)
OutSize == Height(args[1].shape) * Width(args[1].shape)

\* The upstream gradient values of plane p whose index entry is q, summed.
GatheredAt(p, q) ==
    SumSeq([o \in 1..OutSize |->
              IF ValueAt(args[3], p * OutSize + (o - 1)) = q
              THEN ValueAt(args[1], p * OutSize + (o - 1)) ELSE 0])

\* The number of output positions of plane p whose index entry is q.
Hits(p, q) ==
    Cardinality({o \in 0..(OutSize - 1) : ValueAt(args[3], p * OutSize + o) = q})

\* C5: in the backward cases, for every (batch, channel) plane and every
\* flat position q of the input plane, the input gradient at q is the sum of
\* the upstream gradient over the output positions of that plane whose index
\* is q, and 0 when there is none; so the total of the input gradient of a
\* plane equals the total of its upstream gradient.
C5_ScatterAdd ==
    (Done /\ IsBackward) =>
        \A p \in 0..(Planes(args[2].shape) - 1) :
            LET g == GradInputPlane(results[1], p)
            IN  /\ DOMAIN g = 0..(InSize - 1)
                /\ \A q \in 0..(InSize - 1) :
                      /\ g[q] = GatheredAt(p, q)
                      /\ Hits(p, q) = 0 => g[q] = 0
                /\ SumSeq([q \in 1..InSize |-> g[q - 1]])
                     = SumSeq([o \in 1..OutSize |->
                                  ValueAt(args[1], p * OutSize + (o - 1))])

\* A backward case has run on an index tensor in which, in plane 0, one
\* input position is hit by several output positions with a non-zero sum and
\* another by none.
C5_Witness ==
    /\ Done
    /\ IsBackward
    /\ \E q \in 0..(InSize - 1) :
          /\ Hits(0, q) >= 2
          /\ GradInputPlane(results[1], 0)[q] > 0
          /\ GradInputPlane(results[1], 0)[q] = GatheredAt(0, q)
    /\ \E q \in 0..(InSize - 1) : Hits(0, q) = 0

\* The elements under the 4x8 window of output (oh, ow) of plane p of the
\* 20x20 input of AvgPool2dDivisorOverrideModule (stride 2x3, padding 2x4),
\* padding counted as 0.
C6_WindowTerms(p, oh, ow) ==
    [i \in 1..32 |->
        LET h == oh * 2 - 2 + ((i - 1) \div 8)
            w == ow * 3 - 4 + ((i - 1) % 8)
        IN  IF h >= 0 /\ h < 20 /\ w >= 0 /\ w < 20
            THEN Elem(args[1], p, h, w) ELSE 0]

C6_NonPadded(oh, ow) ==
    Cardinality({i \in 1..32 :
        LET h == oh * 2 - 2 + ((i - 1) \div 8)
            w == ow * 3 - 4 + ((i - 1) % 8)
        IN  h >= 0 /\ h < 20 /\ w >= 0 /\ w < 20})

\* C6: AvgPool2dDivisorOverrideModule (kernel 4x8, stride 2x3, padding 2x4,
\* count_include_pad, divisor_override 22) on its 4x4x20x20 input gives, at
\* each of the 11x7 output positions of each plane, the sum of the in-bounds
\* elements of the window over 22: never over the 32 window positions nor
\* over the number of non-padded elements.
C6_DivisorOverride ==
    (Done /\ module.name = "AvgPool2dDivisorOverrideModule") =>
        /\ module.kernel_size = <<4, 8>> /\ Pair(module.stride) = <<2, 3>>
        /\ Pair(module.padding) = <<2, 4>> /\ module.count_include_pad
        /\ args[1].shape = <<4, 4, 20, 20>>
        /\ results[1].shape = <<4, 4, 11, 7>>
        /\ \A p \in 0..15 : \A oh \in 0..10 : \A ow \in 0..6 :
              LET a == AvgPoolAt(results[1], p, oh, ow)
              IN  /\ a.num = SumSeq(C6_WindowTerms(p, oh, ow))
                  /\ a.den = 22
                  /\ a.den # 32
                  /\ a.den # C6_NonPadded(oh, ow)

\* The divisor-override case has run; its corner window (0, 0) holds 8
\* non-padded elements, an inner one 32, and both are divided by 22.
C6_Witness ==
    /\ Done
    /\ module.name = "AvgPool2dDivisorOverrideModule"
    /\ C6_NonPadded(0, 0) = 8
    /\ C6_NonPadded(5, 3) = 32
    /\ AvgPoolAt(results[1], 0, 0, 0).den = 22
    /\ AvgPoolAt(results[1], 0, 5, 3).den = 22
    /\ AvgPoolAt(results[1], 0, 5, 3).num # 0

\* C7: AdaptiveAvgPool2dModule (output size (1, 1)) on its 10x3x8x9 input
\* gives a 10x3x1x1 result whose element for each (batch, channel) pair is
\* the sum of the 72 elements of that 8x9 plane over 72.
C7_AdaptiveMean ==
    (Done /\ module.name = "AdaptiveAvgPool2dModule") =>
        /\ args[1].shape = <<10, 3, 8, 9>>
        /\ results[1].shape = <<10, 3, 1, 1>>
        /\ \A p \in 0..29 :
              LET a == AdaptiveAvgPoolAt(results[1], p, 0, 0)
              IN  /\ a.den = 72
                  /\ a.num = SumSeq([k \in 1..72 |-> ValueAt(args[1], p * 72 + (k - 1))])

\* The adaptive case has run and two planes have different sums.
C7_Witness ==
    /\ Done
    /\ module.name = "AdaptiveAvgPool2dModule"
    /\ results[1].shape = <<10, 3, 1, 1>>
    /\ AdaptiveAvgPoolAt(results[1], 0, 0, 0).num
         # AdaptiveAvgPoolAt(results[1], 29, 0, 0).num

\* C8: in every backward case every value i of the generated index tensor
\* has 0 <= i < H*W, H and W being the spatial sizes of the forward input
\* of that case; the bound of torch.randint is itself at most H*W, so this
\* is so whatever the generator draws.
C8_IndicesInRange ==
    (Done /\ IsBackward) =>
        /\ args[3].gen = "randint"
        /\ args[3].low = 0
        /\ args[3].high <= InSize
        /\ \A k \in 0..(Numel(args[3].shape) - 1) :
              /\ ValueAt(args[3], k) >= 0
              /\ ValueAt(args[3], k) < InSize

\* A backward case has run with an index tensor that holds both the least
\* and the greatest value torch.randint(16, ...) can draw.
C8_Witness ==
    /\ Done
    /\ IsBackward
    /\ \E k \in 0..(Numel(args[3].shape) - 1) : ValueAt(args[3], k) = 15
    /\ \E k \in 0..(Numel(args[3].shape) - 1) : ValueAt(args[3], k) = 0

\* A pooling configuration is valid for its operator.
ValidConfig(m) ==
    /\ Len(m.kernel_size) = 2
    /\ \A d \in 1..2 :
          /\ m.kernel_size[d] >= 1
          /\ Pair(m.stride)[d] >= 1
          /\ Pair(m.dilation)[d] >= 1
          /\ Pair(m.padding)[d] >= 0
          /\ Pair(m.padding)[d] * 2 <= m.kernel_size[d]
    /\ Len(m.stride) \in {1, 2}
    /\ Len(m.padding) \in {1, 2}
    /\ Len(m.dilation) \in {0, 1, 2}
    /\ Len(m.divisor_override) > 0 =>
          /\ m.divisor_override = <<22>>
          /\ m.divisor_override[1] > 0
          /\ m.name = "AvgPool2dDivisorOverrideModule"

\* C9: every pooling configuration of the catalog (every module with a
\* kernel, that is all but the adaptive one) has a kernel size of two
\* entries >= 1, stride and dilation >= 1 and 0 <= 2*padding <= kernel size
\* in both dimensions, and the only divisor override present is 22; and
\* every window of every forward case holds a non-padded input element.
C9_ValidConfig ==
    /\ (module.name # "none" /\ module.op # "adaptive_avg_pool2d") => ValidConfig(module)
    /\ (Done /\ IsForwardPool) =>
          /\ \A oh \in 0..(Height(results[1].shape) - 1) :
                Len(WindowRows(module, args[1].shape, oh)) >= 1
          /\ \A ow \in 0..(Width(results[1].shape) - 1) :
                Len(WindowCols(module, args[1].shape, ow)) >= 1
          /\ Len(Window(module, args[1].shape, Height(results[1].shape) - 1,
                        Width(results[1].shape) - 1)) >= 1

\* MaxPool2dModule, whose paddings 3 and 4 are exactly half its kernel
\* sizes 6 and 8, has run; its corner window holds input elements.
C9_Witness ==
    /\ Done
    /\ module.name = "MaxPool2dModule"
    /\ Pair(module.padding)[1] * 2 = module.kernel_size[1]
    /\ Pair(module.padding)[2] * 2 = module.kernel_size[2]
    /\ Len(Window(module, args[1].shape, 0, 0)) >= 1
    /\ Len(Window(module, args[1].shape, 0, 0)) < 48

\* C10: in each backward case the upstream gradient and the index tensor
\* have the same shape, their batch/channel dimensions are those of the
\* forward input, and each spatial size is that of a forward max-pool with
\* kernel 2x2, stride 1, padding 1, dilation 1 in floor mode, input_size + 1
\* (6x5 gives 7x6); the annotations of the two static modules declare the
\* same shapes.
C10_BackwardShapes ==
    (Done /\ IsBackward) =>
        /\ module.kernel_size = <<2, 2>> /\ Pair(module.stride) = <<1, 1>>
        /\ Pair(module.padding) = <<1, 1>> /\ Pair(module.dilation) = <<1, 1>>
        /\ module.ceil_mode = FALSE
        /\ args[1].shape = args[3].shape
        /\ Leading(args[1].shape) = Leading(args[2].shape)
        /\ Height(args[1].shape) = ((Height(args[2].shape) + 2 * 1 - 1 * (2 - 1) - 1) \div 1) + 1
        /\ Width(args[1].shape) = ((Width(args[2].shape) + 2 * 1 - 1 * (2 - 1) - 1) \div 1) + 1
        /\ Height(args[1].shape) = Height(args[2].shape) + 1
        /\ Width(args[1].shape) = Width(args[2].shape) + 1
        /\ Height(args[2].shape) = 6 /\ Width(args[2].shape) = 5
        /\ Height(args[1].shape) = 7 /\ Width(args[1].shape) = 6
        /\ module.name \in {"MaxPool2dWithIndicesBackwardStatic4DModule",
                            "MaxPool2dWithIndicesBackwardStatic3DModule"} =>
              \A i \in 1..3 : module.annotate_args[i].shape = args[i].shape

\* The static 3D backward case has run with its (4,7,6) gradient and
\* indices and (4,6,5) input, as annotated.
C10_Witness ==
    /\ Done
    /\ module.name = "MaxPool2dWithIndicesBackwardStatic3DModule"
    /\ args[1].shape = <<4, 7, 6>>
    /\ args[2].shape = <<4, 6, 5>>
    /\ module.annotate_args[3].shape = <<4, 7, 6>>
=============================================================================
